---- MODULE Spec2Model ----
(***************************************************************************)
(* Model of the hoop ring buffer (src/src/lib.rs): the Hoop struct with    *)
(* pop / write / overwrite / clear, and the double-ended Iter over it.     *)
(* Cells are numbered 0 .. capacity-1 as in the Vec; an empty cell (None)  *)
(* is NONE, an occupied cell (Some(item)) holds an item of 1 .. NItems.    *)
(***************************************************************************)
EXTENDS Integers, Sequences, FiniteSets, TLC

\* Bounds of the model.
MaxCap == 3
NItems == 2

NONE == 0
Items == 1..NItems
Caps == 1..MaxCap

VARIABLES
    hoop,       \* the Hoop struct: inner, read_position, write_position
    iter,       \* the (single) live Iter, or its dead placeholder
    last,       \* history: the last operation, its argument and its result
    prev,       \* history: the Hoop as it was before the last operation
    order,      \* history: the occupied cells, in the order they were stored
    prevOrder,  \* history: order before the last operation
    fifo,       \* history: a run of writes from empty followed by pops
    trav,       \* history: cells yielded by the live Iter from each end
    iter2,      \* a second live Iter over the same Hoop, or its placeholder
    pair,       \* history: the two Iters' results under the same calls
    panicked    \* the program has panicked

vars == <<hoop, iter, last, prev, order, prevOrder, fifo, trav,
          iter2, pair, panicked>>

----------------------------------------------------------------------------
(* Hoop *)

with_capacity(cap) ==
    [inner |-> [i \in 0..(cap - 1) |-> NONE],
     read_position |-> 0,
     write_position |-> 0]

\* inner.capacity() of the Vec built by vec![None; capacity]: its length.
capacity(h) == Cardinality(DOMAIN h.inner)

\* An advance that never wraps around to cell 0.
advance_nowrap(h, current) == current + 1

advance(h, current) ==
    IF (current + 1) = capacity(h) THEN 0 ELSE current + 1

\* usize arithmetic is modular; 2^16 is the narrowest usize there is (wider
\* ones behave alike here: the wrapped value is beyond every cell).
UsizeModulus == 2^16

\* capacity() - 1 in usize: at capacity 0 it overflows.
retreat_overflows(h, current) == current = 0 /\ capacity(h) = 0

retreat(h, current) ==
    IF current = 0 THEN (capacity(h) - 1) % UsizeModulus ELSE current - 1

\* Indexing the Vec panics when the index is not below its length.
in_bounds(h, idx) == idx \in DOMAIN h.inner

pop_panics(h) == ~in_bounds(h, h.read_position)

write_panics(h) == ~in_bounds(h, h.write_position)

overwrite_panics(h) == ~in_bounds(h, h.write_position)

\* A pop that forgets to move read_position.
pop_noadvance(h) ==
    LET ret == h.inner[h.read_position]
        taken == [h EXCEPT !.inner[h.read_position] = NONE]
    IN  [hoop |-> taken, ret |-> ret]

\* A pop that reads the cell without taking the value out of it.
pop_notake(h) ==
    LET ret == h.inner[h.read_position]
    IN  IF ret # NONE
        THEN [hoop |-> [h EXCEPT !.read_position = advance(h, h.read_position)],
              ret |-> ret]
        ELSE [hoop |-> h, ret |-> ret]

\* A pop that moves read_position backward instead of forward.
pop_retreat(h) ==
    LET ret == h.inner[h.read_position]
        taken == [h EXCEPT !.inner[h.read_position] = NONE]
    IN  IF ret # NONE
        THEN [hoop |-> [taken EXCEPT !.read_position = retreat(h, h.read_position)],
              ret |-> ret]
        ELSE [hoop |-> taken, ret |-> ret]

pop(h) ==
    LET ret == h.inner[h.read_position]
        taken == [h EXCEPT !.inner[h.read_position] = NONE]
    IN  IF ret # NONE
        THEN [hoop |-> [taken EXCEPT !.read_position = advance(h, h.read_position)],
              ret |-> ret]
        ELSE [hoop |-> taken, ret |-> ret]

\* A write without the early return on an occupied cell.
write_clobber(h, item) ==
    LET idx == h.write_position
    IN  [hoop |-> [h EXCEPT !.inner[idx] = item,
                            !.write_position = advance(h, h.write_position)],
         ret |-> "Done"]

\* A write that stores the item and forgets to move write_position.
write_noadvance(h, item) ==
    LET idx == h.write_position
    IN  IF h.inner[idx] # NONE
        THEN [hoop |-> h, ret |-> "TooMany"]
        ELSE [hoop |-> [h EXCEPT !.inner[idx] = item], ret |-> "Done"]

write(h, item) ==
    LET idx == h.write_position
    IN  IF h.inner[idx] # NONE
        THEN [hoop |-> h, ret |-> "TooMany"]
        ELSE [hoop |-> [h EXCEPT !.inner[idx] = item,
                                 !.write_position = advance(h, h.write_position)],
              ret |-> "Done"]

\* An overwrite that never moves read_position.
overwrite_noevict(h, item) ==
    LET idx == h.write_position
    IN  [h EXCEPT !.inner[idx] = item,
                  !.write_position = advance(h, h.write_position)]

\* An overwrite that always moves read_position.
overwrite_evictalways(h, item) ==
    LET idx == h.write_position
    IN  [h EXCEPT !.read_position = advance(h, h.read_position),
                  !.inner[idx] = item,
                  !.write_position = advance(h, h.write_position)]

overwrite(h, item) ==
    LET idx == h.write_position
        moved == IF h.inner[idx] # NONE
                 THEN [h EXCEPT !.read_position = advance(h, h.read_position)]
                 ELSE h
    IN  [moved EXCEPT !.inner[idx] = item,
                      !.write_position = advance(h, h.write_position)]

\* A clear that resets the cursors and leaves the cells alone.
clear_cursorsonly(h) ==
    [h EXCEPT !.read_position = 0, !.write_position = 0]

clear(h) ==
    [inner |-> [i \in DOMAIN h.inner |-> NONE],
     read_position |-> 0,
     write_position |-> 0]

----------------------------------------------------------------------------
(* Iter *)

NoIter ==
    [alive |-> FALSE,
     forward_position |-> 0, seeking_forward |-> FALSE,
     backward_position |-> 0, seeking_backward |-> FALSE]

\* An Iter seeded at write_position itself, not at the cell before it.
Iter_new_noretreat(h) ==
    [alive |-> TRUE,
     forward_position |-> h.read_position,
     backward_position |-> h.write_position,
     seeking_forward |-> FALSE,
     seeking_backward |-> FALSE]

Iter_new(h) ==
    [alive |-> TRUE,
     forward_position |-> h.read_position,
     backward_position |-> retreat(h, h.write_position),
     seeking_forward |-> FALSE,
     seeking_backward |-> FALSE]

\* A next without the check for having looped back to read_position.
next_nolooptest(h, it) ==
    IF it.seeking_forward /\ it.forward_position > it.backward_position
    THEN [hoop |-> h, iter |-> it, ret |-> NONE, cell |-> -1]
    ELSE IF h.inner[it.forward_position] # NONE
    THEN [hoop |-> h,
          iter |-> [it EXCEPT !.forward_position = advance(h, it.forward_position),
                              !.seeking_forward = TRUE],
          ret |-> h.inner[it.forward_position],
          cell |-> it.forward_position]
    ELSE [hoop |-> h, iter |-> it, ret |-> NONE, cell |-> -1]

\* A next that takes the item out of its cell, as pop does.
next_take(h, it) ==
    IF it.seeking_forward /\ it.forward_position = h.read_position
    THEN [hoop |-> h, iter |-> it, ret |-> NONE, cell |-> -1]
    ELSE IF it.seeking_forward /\ it.forward_position > it.backward_position
    THEN [hoop |-> h, iter |-> it, ret |-> NONE, cell |-> -1]
    ELSE IF h.inner[it.forward_position] # NONE
    THEN [hoop |-> [h EXCEPT !.inner[it.forward_position] = NONE],
          iter |-> [it EXCEPT !.forward_position = advance(h, it.forward_position),
                              !.seeking_forward = TRUE],
          ret |-> h.inner[it.forward_position],
          cell |-> it.forward_position]
    ELSE [hoop |-> h, iter |-> it, ret |-> NONE, cell |-> -1]

\* next reaches the indexing of inner with an index that is out of bounds.
next_panics(h, it) ==
    /\ ~(it.seeking_forward /\ it.forward_position = h.read_position)
    /\ ~(it.seeking_forward /\ it.forward_position > it.backward_position)
    /\ ~in_bounds(h, it.forward_position)

\* next_back reaches the indexing of inner with an index out of bounds.
next_back_panics(h, it) ==
    /\ ~(it.seeking_backward /\ it.backward_position = h.write_position)
    /\ ~(it.seeking_backward /\ it.backward_position > h.read_position
             /\ it.backward_position < it.forward_position)
    /\ ~in_bounds(h, it.backward_position)

\* The result has the Hoop as the call leaves it (it is only read), the Iter,
\* the item referred to (NONE for None) and the index of its cell.
next(h, it) ==
    IF it.seeking_forward /\ it.forward_position = h.read_position
    THEN [hoop |-> h, iter |-> it, ret |-> NONE, cell |-> -1]
    ELSE IF it.seeking_forward /\ it.forward_position > it.backward_position
    THEN [hoop |-> h, iter |-> it, ret |-> NONE, cell |-> -1]
    ELSE IF h.inner[it.forward_position] # NONE
    THEN [hoop |-> h,
          iter |-> [it EXCEPT !.forward_position = advance(h, it.forward_position),
                              !.seeking_forward = TRUE],
          ret |-> h.inner[it.forward_position],
          cell |-> it.forward_position]
    ELSE [hoop |-> h, iter |-> it, ret |-> NONE, cell |-> -1]

next_back(h, it) ==
    IF it.seeking_backward /\ it.backward_position = h.write_position
    THEN [hoop |-> h, iter |-> it, ret |-> NONE, cell |-> -1]
    ELSE LET ahead_of_reader == it.backward_position > h.read_position
         IN  IF it.seeking_backward /\ ahead_of_reader
                /\ it.backward_position < it.forward_position
             THEN [hoop |-> h, iter |-> it, ret |-> NONE, cell |-> -1]
             ELSE IF h.inner[it.backward_position] # NONE
             THEN [hoop |-> h,
                   iter |-> [it EXCEPT !.backward_position =
                                           retreat(h, it.backward_position),
                                       !.seeking_backward = TRUE],
                   ret |-> h.inner[it.backward_position],
                   cell |-> it.backward_position]
             ELSE [hoop |-> h, iter |-> it, ret |-> NONE, cell |-> -1]

----------------------------------------------------------------------------
(* History bookkeeping *)

Remove(s, c) == SelectSeq(s, LAMBDA x : x # c)

IsEmpty(h) == \A i \in DOMAIN h.inner : h.inner[i] = NONE
IsFull(h) == \A i \in DOMAIN h.inner : h.inner[i] # NONE

Op(name, item, popRet, writeRet) ==
    [op |-> name, item |-> item, popRet |-> popRet, writeRet |-> writeRet]

FifoOff == [phase |-> "off", wr |-> <<>>, pp |-> <<>>]
FifoStart == [phase |-> "W", wr |-> <<>>, pp |-> <<>>]
NoTrav == [yF |-> <<>>, yB |-> <<>>, lastF |-> "fresh", lastB |-> "fresh"]

\* Two Iters in step: sync while both have had the same calls, the second
\* following each call of the first; pend is the call of the first Iter that
\* the second has yet to make, a and b the results of the last call both made.
NoResult == [ret |-> NONE, cell |-> -1]
NoPair == [sync |-> FALSE, pend |-> <<>>, a |-> NoResult, b |-> NoResult]

Lead(p, other, end, r) ==
    IF ~other.alive THEN p
    ELSE IF p.sync /\ p.pend = <<>>
    THEN [p EXCEPT !.pend = <<[end |-> end, ret |-> r.ret, cell |-> r.cell]>>]
    ELSE NoPair

Follow(p, end, r) ==
    IF p.sync /\ p.pend # <<>> /\ p.pend[1].end = end
    THEN [sync |-> TRUE, pend |-> <<>>,
          a |-> [ret |-> p.pend[1].ret, cell |-> p.pend[1].cell],
          b |-> [ret |-> r.ret, cell |-> r.cell]]
    ELSE NoPair

----------------------------------------------------------------------------
(* Operations *)

Init ==
    /\ \E cap \in Caps : hoop = with_capacity(cap)
    /\ iter = NoIter
    /\ iter2 = NoIter
    /\ panicked = FALSE
    /\ last = Op("with_capacity", NONE, NONE, "-")
    /\ prev = hoop
    /\ order = <<>>
    /\ prevOrder = <<>>
    /\ fifo = FifoStart
    /\ trav = NoTrav
    /\ pair = NoPair

\* with_capacity has no check of its argument: capacity 0 gives a Hoop too.
InitZero ==
    /\ \E cap \in {0} \cup Caps : hoop = with_capacity(cap)
    /\ iter = NoIter
    /\ iter2 = NoIter
    /\ panicked = FALSE
    /\ last = Op("with_capacity", NONE, NONE, "-")
    /\ prev = hoop
    /\ order = <<>>
    /\ prevOrder = <<>>
    /\ fifo = FifoStart
    /\ trav = NoTrav
    /\ pair = NoPair

\* A panic (index out of bounds, arithmetic overflow) ends the program.
Panic(name) ==
    /\ panicked' = TRUE
    /\ last' = Op(name, NONE, NONE, "-")
    /\ UNCHANGED <<hoop, iter, iter2, prev, order, prevOrder, fifo, trav, pair>>

\* Mutation needs &mut self: no Iter may be borrowing the Hoop.
DoPop ==
    /\ ~panicked
    /\ ~iter.alive
    /\ IF pop_panics(hoop) THEN Panic("pop") ELSE
       /\ LET r == pop(hoop)
          IN  /\ hoop' = r.hoop
              /\ last' = Op("pop", NONE, r.ret, "-")
              /\ order' = IF r.ret # NONE THEN Remove(order, hoop.read_position)
                                          ELSE order
              /\ fifo' = CASE fifo.phase = "W" ->
                                [fifo EXCEPT !.phase = "P", !.pp = <<r.ret>>]
                           [] fifo.phase = "P" /\ Len(fifo.pp) <= Len(fifo.wr) ->
                                [fifo EXCEPT !.pp = Append(fifo.pp, r.ret)]
                           [] OTHER -> FifoOff
       /\ prev' = hoop
       /\ prevOrder' = order
       /\ UNCHANGED <<iter, iter2, trav, pair, panicked>>

DoWrite ==
    /\ ~panicked
    /\ ~iter.alive
    /\ IF write_panics(hoop) THEN Panic("write") ELSE
       /\ \E item \in Items :
            LET r == write(hoop, item)
            IN  /\ hoop' = r.hoop
                /\ last' = Op("write", item, NONE, r.ret)
                /\ order' = IF r.ret = "Done"
                            THEN Append(Remove(order, hoop.write_position),
                                        hoop.write_position)
                            ELSE order
                /\ fifo' = CASE r.ret = "Done" /\ fifo.phase = "W" ->
                                  [fifo EXCEPT !.wr = Append(fifo.wr, item)]
                             [] r.ret = "Done" /\ IsEmpty(hoop) ->
                                  [phase |-> "W", wr |-> <<item>>, pp |-> <<>>]
                             [] OTHER -> FifoOff
       /\ prev' = hoop
       /\ prevOrder' = order
       /\ UNCHANGED <<iter, iter2, trav, pair, panicked>>

DoOverwrite ==
    /\ ~panicked
    /\ ~iter.alive
    /\ IF overwrite_panics(hoop) THEN Panic("overwrite") ELSE
       /\ \E item \in Items :
            /\ hoop' = overwrite(hoop, item)
            /\ last' = Op("overwrite", item, NONE, "-")
            /\ order' = Append(Remove(order, hoop.write_position),
                               hoop.write_position)
       /\ fifo' = FifoOff
       /\ prev' = hoop
       /\ prevOrder' = order
       /\ UNCHANGED <<iter, iter2, trav, pair, panicked>>

DoClear ==
    /\ ~panicked
    /\ ~iter.alive
    /\ hoop' = clear(hoop)
    /\ last' = Op("clear", NONE, NONE, "-")
    /\ order' = <<>>
    /\ fifo' = FifoOff
    /\ prev' = hoop
    /\ prevOrder' = order
    /\ UNCHANGED <<iter, iter2, trav, pair, panicked>>

\* Where retreat overflows, a build with overflow checks panics and a build
\* without them goes on with the wrapped value.
DoIter ==
    /\ ~panicked
    /\ ~iter.alive
    /\ \/ /\ retreat_overflows(hoop, hoop.write_position)
          /\ Panic("iter")
       \/ /\ iter' = Iter_new(hoop)
          /\ trav' = NoTrav
          /\ last' = Op("iter", NONE, NONE, "-")
          /\ fifo' = FifoOff
          /\ prev' = hoop
          /\ prevOrder' = order
          /\ UNCHANGED <<hoop, order, iter2, pair, panicked>>

DoNext ==
    /\ ~panicked
    /\ iter.alive
    /\ IF next_panics(hoop, iter) THEN Panic("next") ELSE
       /\ LET r == next(hoop, iter)
          IN  /\ iter' = r.iter
              /\ hoop' = r.hoop
              /\ trav' = IF r.ret # NONE
                         THEN [trav EXCEPT !.yF = Append(trav.yF, r.cell),
                                           !.lastF = "Some"]
                         ELSE [trav EXCEPT !.lastF = "None"]
              /\ last' = Op("next", NONE, r.ret, "-")
              /\ pair' = Lead(pair, iter2, "F", r)
       /\ prev' = hoop
       /\ UNCHANGED <<iter2, order, prevOrder, fifo, panicked>>

DoNextBack ==
    /\ ~panicked
    /\ iter.alive
    /\ IF next_back_panics(hoop, iter) THEN Panic("next_back") ELSE
       /\ LET r == next_back(hoop, iter)
          IN  /\ iter' = r.iter
              /\ hoop' = r.hoop
              /\ trav' = IF r.ret # NONE
                         THEN [trav EXCEPT !.yB = Append(trav.yB, r.cell),
                                           !.lastB = "Some"]
                         ELSE [trav EXCEPT !.lastB = "None"]
              /\ last' = Op("next_back", NONE, r.ret, "-")
              /\ pair' = Lead(pair, iter2, "B", r)
       /\ prev' = hoop
       /\ UNCHANGED <<iter2, order, prevOrder, fifo, panicked>>

\* The Iter goes out of scope and the borrow ends (a second Iter, created
\* later, has gone before it).
DropIter ==
    /\ ~panicked
    /\ iter.alive
    /\ ~iter2.alive
    /\ iter' = NoIter
    /\ trav' = NoTrav
    /\ last' = Op("drop", NONE, NONE, "-")
    /\ UNCHANGED <<hoop, iter2, prev, order, prevOrder, fifo, pair, panicked>>

Next ==
    \/ DoPop
    \/ DoWrite
    \/ DoOverwrite
    \/ DoClear
    \/ DoIter
    \/ DoNext
    \/ DoNextBack
    \/ DropIter

Spec == Init /\ [][Next]_vars

\* The program that constructs its Hoop with any capacity, 0 included.
SpecZero == InitZero /\ [][Next]_vars

\* A second Iter over the same Hoop, taken while the first one is alive.
DoIter2 ==
    /\ ~panicked
    /\ iter.alive
    /\ ~iter2.alive
    /\ \/ /\ retreat_overflows(hoop, hoop.write_position)
          /\ Panic("iter2")
       \/ /\ iter2' = Iter_new(hoop)
          /\ pair' = [NoPair EXCEPT
                         !.sync = (trav.lastF = "fresh" /\ trav.lastB = "fresh")]
          /\ last' = Op("iter2", NONE, NONE, "-")
          /\ prev' = hoop
          /\ UNCHANGED <<hoop, iter, trav, order, prevOrder, fifo, panicked>>

DoNext2 ==
    /\ ~panicked
    /\ iter2.alive
    /\ IF next_panics(hoop, iter2) THEN Panic("next2") ELSE
       /\ LET r == next(hoop, iter2)
          IN  /\ iter2' = r.iter
              /\ hoop' = r.hoop
              /\ last' = Op("next2", NONE, r.ret, "-")
              /\ pair' = Follow(pair, "F", r)
       /\ prev' = hoop
       /\ UNCHANGED <<iter, trav, order, prevOrder, fifo, panicked>>

DoNextBack2 ==
    /\ ~panicked
    /\ iter2.alive
    /\ IF next_back_panics(hoop, iter2) THEN Panic("next_back2") ELSE
       /\ LET r == next_back(hoop, iter2)
          IN  /\ iter2' = r.iter
              /\ hoop' = r.hoop
              /\ last' = Op("next_back2", NONE, r.ret, "-")
              /\ pair' = Follow(pair, "B", r)
       /\ prev' = hoop
       /\ UNCHANGED <<iter, trav, order, prevOrder, fifo, panicked>>

DropIter2 ==
    /\ ~panicked
    /\ iter2.alive
    /\ iter2' = NoIter
    /\ pair' = NoPair
    /\ last' = Op("drop2", NONE, NONE, "-")
    /\ UNCHANGED <<hoop, iter, trav, prev, order, prevOrder, fifo, panicked>>

NextPair ==
    \/ Next
    \/ DoIter2
    \/ DoNext2
    \/ DoNextBack2
    \/ DropIter2

\* The program that may hold two Iters over its Hoop at once.
SpecPair == Init /\ [][NextPair]_vars

----------------------------------------------------------------------------
(* Vocabulary of the properties *)

Cells(h) == DOMAIN h.inner
Occupied(h) == {i \in Cells(h) : h.inner[i] # NONE}

\* The items that repeated pop returns until it first returns None
\* (at most limit pops are made).
RECURSIVE PopSeq(_, _)
PopSeq(h, limit) ==
    IF limit = 0 THEN <<>>
    ELSE LET r == pop(h)
         IN  IF r.ret = NONE THEN <<>>
             ELSE <<r.ret>> \o PopSeq(r.hoop, limit - 1)

PopAll(h) == PopSeq(h, capacity(h) + 1)

\* The items held, in the order in which their cells were stored.
Content(h, ord) == [i \in 1..Len(ord) |-> h.inner[ord[i]]]

Reverse(s) == [i \in 1..Len(s) |-> s[Len(s) + 1 - i]]

Count(s, c) == Cardinality({i \in 1..Len(s) : s[i] = c})

----------------------------------------------------------------------------
(* Properties *)

\* C1: FIFO order. After n <= capacity writes into an empty buffer (cursors
\* anywhere in the ring), the next n pops return the written items in the
\* order written, and one further pop returns nothing.
C1_Fifo ==
    fifo.phase = "P" =>
        \A i \in 1..Len(fifo.pp) :
            fifo.pp[i] = IF i <= Len(fifo.wr) THEN fifo.wr[i] ELSE NONE

\* A run of capacity (at least 2) writes that started away from cell 0 and
\* wrapped, fully popped, with the further pop made.
C1_Witness ==
    /\ fifo.phase = "P"
    /\ Len(fifo.wr) = capacity(hoop)
    /\ Len(fifo.wr) >= 2
    /\ Len(fifo.pp) = Len(fifo.wr) + 1
    /\ hoop.read_position # 0

\* The items in the cells an Iter yielded, in the order it yielded them.
Yielded(h, ys) == [i \in 1..Len(ys) |-> h.inner[ys[i]]]

\* C2: exactly-once traversal. When both next and next_back of one Iter have
\* come to return nothing, every occupied cell has been yielded exactly once
\* in total and no other cell has been yielded.
C2_ExactlyOnce ==
    (iter.alive /\ trav.lastF = "None" /\ trav.lastB = "None") =>
        \A c \in Cells(hoop) :
            Count(trav.yF \o trav.yB, c) = IF c \in Occupied(hoop) THEN 1 ELSE 0

\* C3: forward-only iteration. Calling only next on a fresh Iter until it
\* returns nothing yields the sequence that repeated pop would return.
C3_ForwardOnly ==
    (iter.alive /\ trav.lastB = "fresh" /\ trav.lastF = "None") =>
        Yielded(hoop, trav.yF) = PopAll(hoop)

\* C4: backward-only iteration. Calling only next_back on a fresh Iter until
\* it returns nothing yields the reverse of the sequence that repeated pop
\* would return.
C4_BackwardOnly ==
    (iter.alive /\ trav.lastF = "fresh" /\ trav.lastB = "None") =>
        Yielded(hoop, trav.yB) = Reverse(PopAll(hoop))

\* C5: the two directions never yield the same cell: no cell returned by
\* next of an Iter is also returned by next_back of that Iter.
C5_Disjoint ==
    \A i \in 1..Len(trav.yF) : \A j \in 1..Len(trav.yB) :
        trav.yF[i] # trav.yB[j]

\* C6: write on a full buffer returns TooMany and leaves every cell and both
\* cursors unchanged.
C6_WriteFull ==
    (last.op = "write" /\ IsFull(prev)) =>
        /\ last.writeRet = "TooMany"
        /\ hoop = prev

\* A rejected write on a full buffer of capacity >= 2 whose cursors are not
\* at cell 0.
C6_Witness ==
    /\ last.op = "write"
    /\ IsFull(prev)
    /\ capacity(prev) >= 2
    /\ prev.read_position # 0

\* C7: overwrite on a full buffer holding [e1, ..., ek] leaves a full buffer
\* from which repeated pop returns e2, ..., ek, x and then nothing.
C7_OverwriteFull ==
    (last.op = "overwrite" /\ IsFull(prev)) =>
        LET e == Content(prev, prevOrder)
        IN  /\ Len(e) = capacity(prev)
            /\ PopAll(hoop) = Append(Tail(e), last.item)
            /\ IsFull(hoop)

\* An overwrite of a full buffer of capacity >= 2 whose oldest item differed
\* from the item written and did not sit in cell 0.
C7_Witness ==
    /\ last.op = "overwrite"
    /\ IsFull(prev)
    /\ capacity(prev) >= 2
    /\ prev.read_position # 0
    /\ prev.inner[prev.read_position] # last.item

\* C8: overwrite on a buffer that is not full produces the cells and cursors
\* that a write of the same item produces, and that write returns Done.
C8_OverwriteNotFull ==
    (last.op = "overwrite" /\ ~IsFull(prev)) =>
        write(prev, last.item) = [hoop |-> hoop, ret |-> "Done"]

\* An overwrite of a buffer that was neither full nor empty and whose
\* contents sat past cell 0.
C8_Witness ==
    /\ last.op = "overwrite"
    /\ ~IsFull(prev)
    /\ ~IsEmpty(prev)
    /\ prev.read_position # 0

\* C9: clear leaves every cell empty, both cursors at 0 and the capacity
\* unchanged: the state of a freshly constructed buffer of that capacity.
C9_Clear ==
    last.op = "clear" =>
        /\ IsEmpty(hoop)
        /\ hoop.read_position = 0
        /\ hoop.write_position = 0
        /\ capacity(hoop) = capacity(prev)
        /\ hoop = with_capacity(capacity(prev))

\* A clear of a buffer that held items and whose cursors had both moved.
C9_Witness ==
    /\ last.op = "clear"
    /\ ~IsEmpty(prev)
    /\ prev.read_position # 0
    /\ prev.write_position # 0

\* C10: pop on an empty buffer returns nothing and changes nothing; pop on a
\* non-empty buffer returns the oldest item, empties its cell and moves
\* read_position forward by exactly one position (write_position stays).
C10_Pop ==
    last.op = "pop" =>
        IF IsEmpty(prev)
        THEN /\ last.popRet = NONE
             /\ hoop = prev
        ELSE LET oldest == Head(prevOrder)
             IN  /\ last.popRet = prev.inner[oldest]
                 /\ last.popRet # NONE
                 /\ hoop.inner = [prev.inner EXCEPT ![oldest] = NONE]
                 /\ hoop.read_position =
                        (prev.read_position + 1) % capacity(prev)
                 /\ hoop.write_position = prev.write_position

\* A pop that found the buffer drained by the two or more pops before it,
\* the last of which wrapped read_position around to cell 0.
C10_Witness ==
    /\ last.op = "pop"
    /\ IsEmpty(prev)
    /\ last.popRet = NONE
    /\ fifo.phase = "P"
    /\ Len(fifo.wr) >= 2
    /\ Len(fifo.wr) < capacity(hoop)
    /\ hoop.read_position = 0

IterOps == {"iter", "next", "next_back", "iter2", "next2", "next_back2"}

C11_Step ==
    /\ last'.op \in IterOps =>
          /\ hoop' = hoop
          /\ pop(hoop').ret = pop(hoop).ret
    /\ last'.op \in {"next", "next_back"} => iter2' = iter2
    /\ last'.op \in {"next2", "next_back2"} => iter' = iter
    /\ pair'.a = pair'.b
    /\ (iter2'.alive /\ pair'.sync /\ pair'.pend = <<>>) => iter2' = iter'

\* C11: iteration is read-only and independent. No iter, next or next_back
\* step changes a cell or a cursor of the Hoop (pop would still return the
\* same item); a step of one Iter leaves the other Iter as it was; and two
\* Iters made from the same Hoop and given the same calls return the same
\* results and are in the same state.
C11_ReadOnlyIndependent == [][C11_Step]_vars

\* Two live Iters, given the same calls from both ends, whose last common
\* call returned an element.
C11_Witness ==
    /\ iter.alive
    /\ iter2.alive
    /\ pair.sync
    /\ pair.pend = <<>>
    /\ pair.a.ret # NONE
    /\ Len(trav.yF) >= 1
    /\ Len(trav.yB) >= 1
    /\ iter2 = iter

\* C12: construction with capacity 0 is rejected, so there never is a Hoop
\* of capacity 0 on which pop, write, overwrite or iter has been called.
C12_ZeroRejected ==
    capacity(hoop) = 0 => last.op \notin {"pop", "write", "overwrite", "iter"}

\* C16: no operation fails after construction with capacity >= 1: nothing
\* panics, and read_position, write_position, forward_position and
\* backward_position all lie in 0 .. capacity-1.
C16_InRange ==
    /\ ~panicked
    /\ hoop.read_position \in 0..(capacity(hoop) - 1)
    /\ hoop.write_position \in 0..(capacity(hoop) - 1)
    /\ iter.alive =>
          /\ iter.forward_position \in 0..(capacity(hoop) - 1)
          /\ iter.backward_position \in 0..(capacity(hoop) - 1)

\* An Iter over a wrapped buffer whose forward_position has advanced around
\* to cell 0 and whose backward_position has retreated around to the last
\* cell.
C16_Witness ==
    /\ iter.alive
    /\ capacity(hoop) >= 2
    /\ hoop.read_position # 0
    /\ hoop.write_position # 0
    /\ iter.seeking_forward
    /\ iter.seeking_backward
    /\ iter.forward_position = 0
    /\ iter.backward_position = capacity(hoop) - 1

\* The cells from read_position forward (wrapping), as many as are occupied.
Ring(h) ==
    [i \in 1..Cardinality(Occupied(h)) |->
        (h.read_position + i - 1) % capacity(h)]

Range(s) == {s[i] : i \in 1..Len(s)}

\* C13: contiguous occupancy. The occupied cells are exactly the cells from
\* read_position forward (wrapping) to the cell before write_position, and
\* in that order they are the retained items in the order they were stored.
C13_Contiguous ==
    /\ Range(Ring(hoop)) = Occupied(hoop)
    /\ hoop.write_position =
           (hoop.read_position + Cardinality(Occupied(hoop))) % capacity(hoop)
    /\ order = Ring(hoop)

\* A buffer whose two or more items wrap past the last cell, neither full
\* nor empty.
C13_Witness ==
    /\ Len(order) >= 2
    /\ ~IsFull(hoop)
    /\ hoop.write_position < hoop.read_position
    /\ hoop.write_position # 0

\* C14: the cell at read_position is empty if and only if no cell of the
\* buffer is occupied.
C14_EmptyIff ==
    (hoop.inner[hoop.read_position] = NONE) <=> (Occupied(hoop) = {})

\* An empty buffer, drained by a pop, whose read_position is not cell 0.
C14_Witness ==
    /\ last.op = "pop"
    /\ last.popRet # NONE
    /\ Occupied(hoop) = {}
    /\ hoop.read_position # 0

\* C15: the cell at write_position is occupied if and only if all cells are
\* occupied; write returns Done exactly when fewer than capacity items were
\* held.
C15_FullIff ==
    /\ (hoop.inner[hoop.write_position] # NONE) <=> IsFull(hoop)
    /\ last.op = "write" =>
           ((last.writeRet = "Done") <=>
               (Cardinality(Occupied(prev)) < capacity(prev)))

\* A write that filled the last free cell of a buffer of capacity >= 2 whose
\* cursors are not at cell 0.
C15_Witness ==
    /\ last.op = "write"
    /\ last.writeRet = "Done"
    /\ IsFull(hoop)
    /\ capacity(hoop) >= 2
    /\ hoop.write_position # 0

\* C17: cursor movement. write, overwrite and pop leave each cursor where it
\* was or move it to (i + 1) mod capacity; clear puts both at 0; and
\* read_position equals write_position iff the buffer is empty or full.
C17_Cursors ==
    /\ last.op \in {"pop", "write", "overwrite"} =>
          /\ hoop.read_position \in
                 {prev.read_position,
                  (prev.read_position + 1) % capacity(prev)}
          /\ hoop.write_position \in
                 {prev.write_position,
                  (prev.write_position + 1) % capacity(prev)}
    /\ last.op = "clear" =>
          (hoop.read_position = 0 /\ hoop.write_position = 0)
    /\ (hoop.read_position = hoop.write_position) <=>
          (IsEmpty(hoop) \/ IsFull(hoop))

\* An overwrite of a full buffer of capacity >= 3 that moved both cursors
\* from the last cell around to cell 0.
C17_Witness ==
    /\ last.op = "overwrite"
    /\ capacity(hoop) >= 3
    /\ prev.read_position = capacity(hoop) - 1
    /\ prev.write_position = capacity(hoop) - 1
    /\ hoop.read_position = 0
    /\ hoop.write_position = 0

C18_Step ==
    /\ (last'.op = "iter" /\ iter'.alive) =>
          /\ iter'.forward_position = hoop.read_position
          /\ iter'.backward_position =
                 (hoop.write_position + capacity(hoop) - 1) % capacity(hoop)
    /\ (last'.op = "next" /\ trav.lastF = "fresh") =>
          IF IsEmpty(hoop)
          THEN last'.popRet = NONE
          ELSE /\ trav'.yF = <<Head(order)>>
               /\ last'.popRet = hoop.inner[Head(order)]
               /\ last'.popRet = pop(hoop).ret
    /\ (last'.op = "next_back" /\ trav.lastB = "fresh") =>
          IF IsEmpty(hoop)
          THEN last'.popRet = NONE
          ELSE /\ trav'.yB = <<order[Len(order)]>>
               /\ last'.popRet = hoop.inner[order[Len(order)]]

\* C18: iterator seeding. iter() gives forward_position = read_position and
\* backward_position = the cell before write_position (wrapping); the first
\* next of an Iter returns the oldest item (the one pop would return), its
\* first next_back the most recently stored item, and both return nothing on
\* an empty buffer.
C18_Seeding == [][C18_Step]_vars

\* An Iter over two or more items ending in the last cell (write_position
\* wrapped to 0) that has yielded the oldest from the front and the newest
\* from the back.
C18_Witness ==
    /\ iter.alive
    /\ Len(order) >= 2
    /\ hoop.write_position = 0
    /\ hoop.read_position # 0
    /\ trav.yF = <<Head(order)>>
    /\ trav.yB = <<order[Len(order)]>>

\* C19: traversal is finite. However next and next_back are interleaved on
\* one Iter, each end returns an element at most capacity times, so only
\* finitely many calls return an element.
C19_Finite ==
    iter.alive =>
        /\ Len(trav.yF) <= capacity(hoop)
        /\ Len(trav.yB) <= capacity(hoop)

\* An Iter both of whose ends have come to return nothing, after the front
\* yielded capacity (>= 2) cells and the back at least one.
C19_Witness ==
    /\ iter.alive
    /\ trav.lastF = "None"
    /\ trav.lastB = "None"
    /\ capacity(hoop) >= 2
    /\ Len(trav.yF) = capacity(hoop)
    /\ Len(trav.yB) >= 1

C20_Step ==
    (iter.alive /\ iter'.alive) =>
        /\ trav.lastF = "None" => trav'.lastF = "None"
        /\ trav.lastB = "None" => trav'.lastB = "None"

\* C20: stop is permanent. Once next of an Iter has returned nothing, every
\* later next of that Iter returns nothing, whatever next_back calls come in
\* between; and the same for next_back with next calls in between.
C20_StopPermanent == [][C20_Step]_vars

====
